---- MODULE Spec2Model ----
(***************************************************************************)
(* JaySchema: schema registry (src/jayschema.js: register, getSchema) and  *)
(* the validation engine with its reference loader (src/lib/jayschema.js:  *)
(* validate, _validateImpl, _loadMissingRefs).                             *)
(*                                                                         *)
(* Strings are sequences of tokens; a token stands for one character       *)
(* ("#", "/", "~") or for a run of characters that no operation of the     *)
(* code ever cuts ("definitions").  JavaScript undefined/null/"" (the      *)
(* falsy strings) are the empty sequence.                                  *)
(*                                                                         *)
(* Schemas live in a heap of objects addressed by identity; a field value  *)
(* is a string, null, or a reference to another heap object (a plain       *)
(* object or an array).                                                    *)
(***************************************************************************)
EXTENDS Integers, Sequences, FiniteSets, TLC

VARIABLES
    addedIds,       \* the id fields validate has added: {[o, id]}
    schemas,        \* the registry: entries in insertion order (this.schemas)
    refsRequested,  \* normalized ref -> promise id, in insertion order
    promises,       \* promise id -> "pending" | "fulfilled" | "rejected"
    inflight,       \* loader invocations whose done has not been called yet
    fetchLog,       \* history: every loader invocation, in order
    calls,          \* one record per validate call started
    stack,          \* frames of _loadMissingRefs whose request loop is running
    waiters,        \* joins registered by keys.all(...).then(...)
    cfg,            \* constructor/public settings: loader, maxRecursion
    threw,          \* register or validate has thrown to its caller
    lastOp,         \* the last getSchema query and what it returned
    urlsRequested,  \* legacy validator: this._urlsRequested
    preloads,       \* legacy validator: the invocations of _recursivePreload
    downloads,      \* legacy validator: downloadSchema calls not yet answered
    formats,        \* this._customFormatHandlers: name -> handler wrapped
    formatOut       \* the last call of a format wrapper and its error list

\* the fields of the legacy validator (src/jayschema.js) beside the registry
legacyVars == <<urlsRequested, preloads, downloads>>

\* the format handler registry
formatVars == <<formats, formatOut>>

vars == <<addedIds, schemas, refsRequested, promises, inflight, fetchLog, calls,
          stack, waiters, cfg, threw, lastOp, urlsRequested, preloads,
          downloads, formats, formatOut>>

-----------------------------------------------------------------------------
(* Bounds of the model                                                     *)

MaxCalls == 2          \* validate calls per behaviour
MaxRecursionCfg == 3   \* maxRecursion is drawn from 0..MaxRecursionCfg

-----------------------------------------------------------------------------
(* Strings                                                                 *)

Undef == <<>>

Or(a, b) == IF a # Undef THEN a ELSE b

\* String(x) of a possibly undefined value, as in  _path + '/' + key
ToStr(s) == IF s = Undef THEN <<"undefined">> ELSE s

IndexOf(s, tok) ==
    IF \E i \in 1..Len(s) : s[i] = tok
    THEN CHOOSE i \in 1..Len(s) : s[i] = tok /\ \A j \in 1..(i-1) : s[j] # tok
    ELSE 0

Slice(s, from) == SubSeq(s, from + 1, Len(s))

\* url.parse(u).hash : from the first '#' to the end, null when there is none
UrlHash(u) ==
    LET i == IndexOf(u, "#") IN IF i = 0 THEN Undef ELSE SubSeq(u, i, Len(u))

\* delete parts.hash; url.format(parts)
UrlBase(u) ==
    LET i == IndexOf(u, "#") IN IF i = 0 THEN u ELSE SubSeq(u, 1, i - 1)

\* str.split('/') : the segments between the '/' tokens ("" gives one empty one)
RECURSIVE Split(_)
Split(s) ==
    LET i == IndexOf(s, "/")
    IN  IF i = 0 THEN <<s>>
        ELSE <<SubSeq(s, 1, i - 1)>> \o Split(SubSeq(s, i + 1, Len(s)))

\* jsonPointer.decode : '~1' -> '/', '~0' -> '~'
RECURSIVE decode(_)
decode(s) ==
    IF Len(s) = 0 THEN s
    ELSE IF Len(s) >= 2 /\ s[1] = "~" /\ s[2] = "1"
         THEN <<"/">> \o decode(Slice(s, 2))
    ELSE IF Len(s) >= 2 /\ s[1] = "~" /\ s[2] = "0"
         THEN <<"~">> \o decode(Slice(s, 2))
    ELSE <<s[1]>> \o decode(Slice(s, 1))

\* scheme://host of a URI that has them
HasAuthority(u) == Len(u) >= 5 /\ SubSeq(u, 2, 4) = <<":", "/", "/">>

IsAbsolute(u) == Len(u) >= 2 /\ u[2] = ":"

\* jsonPointer.resolve(scope, id) : URI-reference resolution.  A fragment-only
\* reference keeps the scope's base; an absolute reference replaces the scope;
\* a relative one replaces the path of the scope (all of a scope that is one
\* path segment); no scope leaves the reference as it is.
resolve(scope, id) ==
    IF scope = Undef THEN id
    ELSE IF Len(id) > 0 /\ id[1] = "#" THEN UrlBase(scope) \o id
    ELSE IF ~IsAbsolute(id) /\ HasAuthority(scope)
         THEN SubSeq(scope, 1, 5) \o <<"/">> \o id
    ELSE id

-----------------------------------------------------------------------------
(* Heap values                                                             *)

Str(s)  == [t |-> "str",  s |-> s,     a |-> ""]
NullV   == [t |-> "null", s |-> Undef, a |-> ""]
Ref(a)  == [t |-> "ref",  s |-> Undef, a |-> a]
UndefV  == [t |-> "undef", s |-> Undef, a |-> ""]
ThrowV  == [t |-> "throw", s |-> Undef, a |-> ""]

Fld(k, v) == [k |-> k, v |-> v]
Obj(kv)   == [arr |-> FALSE, kv |-> kv]
Arr(kv)   == [arr |-> TRUE,  kv |-> kv]

HasOwn(h, a, key) == \E i \in 1..Len(h[a].kv) : h[a].kv[i].k = key

Prop(h, a, key) ==
    IF HasOwn(h, a, key)
    THEN h[a].kv[CHOOSE i \in 1..Len(h[a].kv) : h[a].kv[i].k = key].v
    ELSE UndefV

\* a string-valued property, undefined when absent
PropStr(h, a, key) ==
    LET v == Prop(h, a, key) IN IF v.t = "str" THEN v.s ELSE Undef

\* typeof v === 'object'   (true of null)
TypeofObject(v) == v.t \in {"null", "ref"}

IsArray(h, v) == v.t = "ref" /\ h[v.a].arr

-----------------------------------------------------------------------------
(* The schema objects of the model                                         *)

SA  == "SA"    \* {id:"A", $ref:"B"}
SB  == "SB"    \* {id:"B", $ref:"C"}
SC  == "SC"    \* {id:"C", $ref:"D"}
SD  == "SD"    \* {id:"D", type:"string"}
SE  == "SE"    \* {id:"E", p:{$ref:"B"}, q:{$ref:"D"}}
SEp == "SEp"
SEq == "SEq"
N1  == "N1"    \* {type:"string"}
N2  == "N2"    \* {type:"string"}, another object
SU  == "SU"   \* {id:"U", $schema:"bogus"}
SF  == "SF"   \* {id:"F", definitions:{x:{id:"#frag", type:"string"}}}
SFd == "SFd"
SFx == "SFx"
SF2 == "SF2"   \* {id:"F", type:"number"}
SW  == "SW"   \* {id:"P#frag", inner:{id:"P"}}
SWi == "SWi"
SG  == "SG"   \* {id:"G", enum:[null]}
SGe == "SGe"
SN  == "SN"   \* {id:"N", default:null}
SD2 == "SD2"  \* {id:"D", type:"number"}
SDn == "SDn"  \* {id:"D", default:null}
SR  == "SR"   \* {$ref:"other#/definitions/y"}
SRt == "SRt"  \* {$ref:"other#/definitions/y/type"}
SRI == "SRI"  \* {id:"I", $ref:"other#/definitions/y"}
SO  == "SO"   \* {id:"other", definitions:{y:{type:"string"}}}
SOd == "SOd"
SOy == "SOy"
LE  == "LE"   \* {id:"L", p:{$ref:"http://h/B"}, q:{$ref:"http://h/C"}}
LEp == "LEp"
LEq == "LEq"
LB  == "LB"   \* {id:"http://h/B", $ref:"http://h/C"}
LC  == "LC"   \* {id:"http://h/C", type:"string"}
Absent == "" \* no schema passed (undefined)

kId     == <<"id">>
kRef    == <<"$ref">>
kSchema == <<"$schema">>
kType   == <<"type">>
kDefs   == <<"definitions">>
kX      == <<"x">>
fragName == <<"#", "f", "rag">>
refOtherY == <<"other", "#", "/", "definitions", "/", "y">>
refOtherYType == refOtherY \o <<"/", "type">>
httpB == <<"http", ":", "/", "/", "h", "/", "B">>
httpC == <<"http", ":", "/", "/", "h", "/", "C">>

World ==
    (SA :> Obj(<<Fld(kId, Str(<<"A">>)), Fld(kRef, Str(<<"B">>))>>)) @@
    (SB :> Obj(<<Fld(kId, Str(<<"B">>)), Fld(kRef, Str(<<"C">>))>>)) @@
    (SC :> Obj(<<Fld(kId, Str(<<"C">>)), Fld(kRef, Str(<<"D">>))>>)) @@
    (SD :> Obj(<<Fld(kId, Str(<<"D">>)), Fld(kType, Str(<<"string">>))>>)) @@
    (SE :> Obj(<<Fld(kId, Str(<<"E">>)), Fld(<<"p">>, Ref(SEp)), Fld(<<"q">>, Ref(SEq))>>)) @@
    (SEp :> Obj(<<Fld(kRef, Str(<<"B">>))>>)) @@
    (SEq :> Obj(<<Fld(kRef, Str(<<"D">>))>>)) @@
    (N1 :> Obj(<<Fld(kType, Str(<<"string">>))>>)) @@
    (N2 :> Obj(<<Fld(kType, Str(<<"string">>))>>)) @@
    (SU :> Obj(<<Fld(kId, Str(<<"U">>)), Fld(kSchema, Str(<<"bogus">>))>>)) @@
    (SF :> Obj(<<Fld(kId, Str(<<"F">>)), Fld(kDefs, Ref(SFd))>>)) @@
    (SFd :> Obj(<<Fld(kX, Ref(SFx))>>)) @@
    (SFx :> Obj(<<Fld(kId, Str(fragName)), Fld(kType, Str(<<"string">>))>>)) @@
    (SF2 :> Obj(<<Fld(kId, Str(<<"F">>)), Fld(kType, Str(<<"number">>))>>)) @@
    (SW :> Obj(<<Fld(kId, Str(<<"P">> \o fragName)), Fld(<<"inner">>, Ref(SWi))>>)) @@
    (SWi :> Obj(<<Fld(kId, Str(<<"P">>))>>)) @@
    (SG :> Obj(<<Fld(kId, Str(<<"G">>)), Fld(<<"enum">>, Ref(SGe))>>)) @@
    (SGe :> Arr(<<Fld(<<"0">>, NullV)>>)) @@
    (SN :> Obj(<<Fld(kId, Str(<<"N">>)), Fld(<<"default">>, NullV)>>)) @@
    (SD2 :> Obj(<<Fld(kId, Str(<<"D">>)), Fld(kType, Str(<<"number">>))>>)) @@
    (SDn :> Obj(<<Fld(kId, Str(<<"D">>)), Fld(<<"default">>, NullV)>>)) @@
    (SR :> Obj(<<Fld(kRef, Str(refOtherY))>>)) @@
    (SRt :> Obj(<<Fld(kRef, Str(refOtherYType))>>)) @@
    (SRI :> Obj(<<Fld(kId, Str(<<"I">>)), Fld(kRef, Str(refOtherY))>>)) @@
    (SO :> Obj(<<Fld(kId, Str(<<"other">>)), Fld(kDefs, Ref(SOd))>>)) @@
    (SOd :> Obj(<<Fld(<<"y">>, Ref(SOy))>>)) @@
    (SOy :> Obj(<<Fld(kType, Str(<<"string">>))>>)) @@
    (LE :> Obj(<<Fld(kId, Str(<<"L">>)), Fld(<<"p">>, Ref(LEp)), Fld(<<"q">>, Ref(LEq))>>)) @@
    (LEp :> Obj(<<Fld(kRef, Str(httpB))>>)) @@
    (LEq :> Obj(<<Fld(kRef, Str(httpC))>>)) @@
    (LB :> Obj(<<Fld(kId, Str(httpB)), Fld(kRef, Str(httpC))>>)) @@
    (LC :> Obj(<<Fld(kId, Str(httpC)), Fld(kType, Str(<<"string">>))>>))

-----------------------------------------------------------------------------
(* The heap: the objects as the callers made them, and the ids added      *)

HeapOf(ids) ==
    [a \in DOMAIN World |->
        IF \E r \in ids : r.o = a
        THEN [World[a] EXCEPT !.kv =
                 Append(@, Fld(kId, Str((CHOOSE r \in ids : r.o = a).id)))]
        ELSE World[a]]

heap == HeapOf(addedIds)

-----------------------------------------------------------------------------
(* The registry: src/jayschema.js                                          *)

HasBase(reg, baseUri) == \E i \in 1..Len(reg) : reg[i].uri = baseUri

EntryOf(reg, baseUri) == reg[CHOOSE i \in 1..Len(reg) : reg[i].uri = baseUri]

HasFragment(e, fragment) == \E i \in 1..Len(e.frags) : e.frags[i].f = fragment

FragmentPath(e, fragment) ==
    IF HasFragment(e, fragment)
    THEN e.frags[CHOOSE i \in 1..Len(e.frags) : e.frags[i].f = fragment].p
    ELSE Undef

\* this.schemas[baseUri] = { schema: schema, fragments: {} } : a new key goes
\* last, an old one would get the new value
StoreTopLevel(reg, baseUri, a) ==
    LET e == [uri |-> baseUri, schema |-> a, frags |-> <<>>]
    IN  IF HasBase(reg, baseUri)
        THEN [i \in 1..Len(reg) |-> IF reg[i].uri = baseUri THEN e ELSE reg[i]]
        ELSE Append(reg, e)

\* a registry that lacks the guard below: every registration stores
topLevelPresentNever(reg, baseUri) == FALSE

\* this.schemas.hasOwnProperty(baseUri) : this and its sub-schemas are
\* already registered
topLevelPresent(reg, baseUri) == HasBase(reg, baseUri)

\* fragments[fragment] = _path : a new key goes last, an old one would get
\* the new value
PutFragment(frags, fragment, path) ==
    IF \E i \in 1..Len(frags) : frags[i].f = fragment
    THEN [i \in 1..Len(frags) |-> IF frags[i].f = fragment
                                   THEN [f |-> fragment, p |-> path] ELSE frags[i]]
    ELSE Append(frags, [f |-> fragment, p |-> path])

\* the fragment branch of register: only under a registered base URI, and
\* only when the fragment is not mapped yet
StoreFragment(reg, baseUri, fragment, path) ==
    IF HasBase(reg, baseUri) /\ ~HasFragment(EntryOf(reg, baseUri), fragment)
    THEN [i \in 1..Len(reg) |->
            IF reg[i].uri = baseUri
            THEN [reg[i] EXCEPT !.frags = PutFragment(@, fragment, path)]
            ELSE reg[i]]
    ELSE reg

IsTopLevel(fragment) == fragment = Undef \/ fragment = <<"#">>

\* st = [reg, thrown]; v is the value passed as schema.  A null value makes
\* schema.id a TypeError: the exception leaves what was stored so far in place.
RECURSIVE register(_, _, _, _, _, _), registerKeys(_, _, _, _, _, _)
register(h, st, v, resolutionScope, fallbackId, path) ==
    IF st.thrown THEN st
    ELSE IF v.t # "ref" THEN [st EXCEPT !.thrown = TRUE]
    ELSE
      LET id         == Or(PropStr(h, v.a, kId), fallbackId)
          resolvedId == resolve(resolutionScope, id)
          fragment   == UrlHash(resolvedId)
          baseUri    == UrlBase(resolvedId)
      IN  IF id = Undef
          THEN registerKeys(h, st, v.a, 1, resolutionScope, path)
          ELSE IF IsTopLevel(fragment)
          THEN IF topLevelPresent(st.reg, baseUri)
               THEN st
               ELSE registerKeys(h,
                        [st EXCEPT !.reg = StoreTopLevel(@, baseUri, v.a)],
                        v.a, 1, resolvedId, <<"#">>)
          ELSE registerKeys(h,
                   [st EXCEPT !.reg = StoreFragment(@, baseUri, fragment, path)],
                   v.a, 1, resolvedId, path)

registerKeys(h, st, a, index, resolutionScope, path) ==
    IF st.thrown \/ index > Len(h[a].kv) THEN st
    ELSE
      LET f   == h[a].kv[index]
          st2 == IF TypeofObject(f.v) /\ ~IsArray(h, f.v)
                 THEN register(h, st, f.v, resolutionScope, Undef,
                               ToStr(path) \o <<"/">> \o f.k)
                 ELSE st
      IN  registerKeys(h, st2, a, index + 1, resolutionScope, path)

\* The while loop of getSchema: descend field by field.  hasOwnProperty on
\* null is a TypeError; a string has none of the fields asked for.
RECURSIVE descend(_, _, _)
descend(h, cur, path) ==
    IF Len(path) = 0 THEN cur
    ELSE LET element == decode(Head(path))
         IN  IF cur.t = "null" THEN ThrowV
             ELSE IF cur.t # "ref" THEN NullV
             ELSE IF ~HasOwn(h, cur.a, element) THEN NullV
             ELSE descend(h, Prop(h, cur.a, element), Tail(path))

getSchema(h, reg, resolvedId) ==
    LET fragment == UrlHash(resolvedId)
        baseUri  == UrlBase(resolvedId)
    IN  IF ~HasBase(reg, baseUri) THEN NullV
        ELSE LET e == EntryOf(reg, baseUri)
             IN  IF IsTopLevel(fragment) THEN Ref(e.schema)
                 ELSE LET frag2 == IF SubSeq(fragment, 1, 2) # <<"#", "/">>
                                   THEN Or(FragmentPath(e, fragment), fragment)
                                   ELSE fragment
                      IN  descend(h, Ref(e.schema), Split(Slice(frag2, 2)))

-----------------------------------------------------------------------------
(* SchemaRegistry queries used by the engine                               *)

\* SchemaRegistry._normalizeId : the ref without its fragment
normalizeId(ref) == UrlBase(ref)

isRegistered(reg, id) == id # Undef /\ HasBase(reg, normalizeId(id))

\* every $ref value found in the object at v, depth first, in field order
RECURSIVE refsIn(_, _), refsInKeys(_, _, _)
refsIn(h, v) ==
    IF v.t # "ref" THEN <<>>
    ELSE LET own == PropStr(h, v.a, kRef)
         IN  (IF own # Undef THEN <<own>> ELSE <<>>) \o refsInKeys(h, v.a, 1)

refsInKeys(h, a, index) ==
    IF index > Len(h[a].kv) THEN <<>>
    ELSE refsIn(h, h[a].kv[index].v) \o refsInKeys(h, a, index + 1)

RECURSIVE Dedup(_)
Dedup(s) ==
    IF Len(s) = 0 THEN s
    ELSE LET r == Dedup(SubSeq(s, 1, Len(s) - 1))
             x == s[Len(s)]
         IN  IF \E i \in 1..Len(r) : r[i] = x THEN r ELSE Append(r, x)

RECURSIVE missingFrom(_, _, _)
missingFrom(h, reg, index) ==
    IF index > Len(reg) THEN <<>>
    ELSE LET raw  == refsIn(h, Ref(reg[index].schema))
             norm == [i \in 1..Len(raw) |->
                         normalizeId(resolve(reg[index].uri, raw[i]))]
         IN  SelectSeq(norm, LAMBDA r : ~HasBase(reg, r))
                 \o missingFrom(h, reg, index + 1)

\* the refs that registered schemas mention and that are not registered
getMissingSchemas(h, reg) == Dedup(missingFrom(h, reg, 1))

-----------------------------------------------------------------------------
(* The engine: src/lib/jayschema.js                                        *)

DEFAULT_MAX_RECURSION == 5

DEFAULT_SCHEMA_VERSION == <<"http://json-schema.org/draft-04/schema", "#">>

testRunners == { <<"http://json-schema.org/draft-04/schema", "#">>,
                 <<"http://json-schema.org/schema", "#">> }

\* JSON.stringify: the content of the object, whatever its identity
RECURSIVE stringify(_, _), stringifyKeys(_, _, _)
stringify(h, v) ==
    IF v.t = "str" THEN <<"'">> \o v.s \o <<"'">>
    ELSE IF v.t # "ref" THEN <<"null">>
    ELSE IF h[v.a].arr THEN <<"[">> \o stringifyKeys(h, v.a, 1) \o <<"]">>
    ELSE <<"{">> \o stringifyKeys(h, v.a, 1) \o <<"}">>

stringifyKeys(h, a, index) ==
    IF index > Len(h[a].kv) THEN <<>>
    ELSE (IF index > 1 THEN <<",">> ELSE <<>>)
         \o (IF h[a].arr THEN <<>> ELSE h[a].kv[index].k \o <<":">>)
         \o stringify(h, h[a].kv[index].v)
         \o stringifyKeys(h, a, index + 1)

\* The hex digest of a string: one value per string, free of '#' and '/'.
HexDigest(s) ==
    [i \in 1..Len(s) |-> IF s[i] = "#" THEN "23"
                         ELSE IF s[i] = "/" THEN "2f" ELSE s[i]]

\* an id drawn per object, as a uuid would be, instead of from the content
getObjectHashByIdentity(h, a) == <<"uuid", a>>

getObjectHash(h, a) == HexDigest(stringify(h, Ref(a)))

\* schema.id = schema.id || JaySchema._getObjectHash(schema)
assignId(ids, a) ==
    IF PropStr(HeapOf(ids), a, kId) # Undef THEN ids
    ELSE ids \cup {[o |-> a, id |-> getObjectHash(HeapOf(ids), a)]}

Err(kind, refs) == [kind |-> kind, refs |-> refs]

\* how many errors the external dialect runner may report for an instance
RunnerErrCounts == {0, 2}

RunnerErrors(n) == [i \in 1..n |-> Err("Runner", <<>>)]

\* a variant of implErrs that reports the dialect error and runs a runner too
implErrsNoShortCircuit(dialect, n) ==
    (IF dialect \notin testRunners
     THEN <<Err("UnsupportedDialect", <<dialect>>)>> ELSE <<>>) \o RunnerErrors(n)

\* the end of _validateImpl: no runner for the dialect gives that error alone,
\* otherwise the list is the runner's
implErrs(dialect, n) ==
    IF dialect \notin testRunners
    THEN <<Err("UnsupportedDialect", <<dialect>>)>>
    ELSE RunnerErrors(n)

\* _validateImpl(instance, schema, resolutionScope): n is the number of errors
\* the external dialect runner reports.  Gives [reg, errs, thrown].
validateImpl(h, reg, a, resolutionScope, n) ==
    LET schemaId == Or(PropStr(h, a, kId),
                       Or(resolutionScope,
                          <<"anon-schema", ":", "/", "/">>
                              \o getObjectHash(h, a) \o <<"/", "#">>))
        st == IF ~isRegistered(reg, schemaId)
              THEN register(h, [reg |-> reg, thrown |-> FALSE], Ref(a),
                            schemaId, resolutionScope, Undef)
              ELSE [reg |-> reg, thrown |-> FALSE]
        dialect == Or(PropStr(h, a, kSchema), DEFAULT_SCHEMA_VERSION)
    IN  [reg    |-> st.reg,
         thrown |-> st.thrown,
         errs   |-> implErrs(dialect, n)]

\* a variant of syncErrs that says nothing about the loader
syncErrsNone(loader) == <<>>

\* the errs list of the non-callback path before _validateImpl is called
syncErrs(loader) == IF loader THEN <<Err("LoaderAsync", <<>>)>> ELSE <<>>

Requested(rr, key) == \E i \in 1..Len(rr) : rr[i].ref = key

\* this._refsRequested[key] = promise : a new key goes last, an old one is
\* overwritten in place
PutRequested(rr, key, p) ==
    IF Requested(rr, key)
    THEN [i \in 1..Len(rr) |-> IF rr[i].ref = key THEN [ref |-> key, p |-> p]
                                                  ELSE rr[i]]
    ELSE Append(rr, [ref |-> key, p |-> p])

\* the refs _loadMissingRefs will request: missing, not registered, not requested
missingRefs(h, reg, rr) ==
    SelectSeq(getMissingSchemas(h, reg),
              LAMBDA ref : ~isRegistered(reg, ref)
                           /\ ~Requested(rr, normalizeId(ref)))

\* a variant of tooDeep that lets one more round of fetches through
tooDeepBelowZero(missing, depth) == Len(missing) # 0 /\ depth < 0

\* are we in too deep?   missing.length && !depth
tooDeep(missing, depth) == Len(missing) # 0 /\ depth = 0

-----------------------------------------------------------------------------
(* Inputs                                                                  *)

\* what the external loader hands to done for a ref
Remote(ref) ==
    IF ref = <<"B">> THEN {SB}
    ELSE IF ref = <<"C">> THEN {SC}
    ELSE IF ref = <<"D">> THEN {SD}
    ELSE {}

-----------------------------------------------------------------------------
(* State after construction                                                *)

NoOp == [op |-> "none", uri |-> Undef, res |-> UndefV]

NoFormatCall ==
    [op |-> "none", name |-> "", handler |-> "", inst |-> "", errs |-> <<>>]

Cfg(loader, maxRecursion) == [loader |-> loader, maxRecursion |-> maxRecursion]

InitWith(cfgs) ==
    /\ addedIds = {}
    /\ schemas = <<>>
    /\ refsRequested = <<>>
    /\ promises = <<>>
    /\ inflight = {}
    /\ fetchLog = <<>>
    /\ calls = <<>>
    /\ stack = <<>>
    /\ waiters = {}
    /\ cfg \in cfgs
    /\ threw = FALSE
    /\ lastOp = NoOp
    /\ urlsRequested = <<>>
    /\ preloads = <<>>
    /\ downloads = {}
    /\ formats = <<>>
    /\ formatOut = NoFormatCall

-----------------------------------------------------------------------------
(* validate and the reference loader                                       *)

Top == stack[Len(stack)]

\* no JavaScript is running: a new turn of the event loop may start
Idle == stack = <<>>

\* inside the user's loader, called from the request loop of the top frame
InLoader == stack # <<>> /\ Top.inLoader

NewCall(o, cb, st, result) ==
    [schema |-> o, cb |-> cb, st |-> st, returned |-> st # "loading",
     result |-> result, cbCount |-> 0, early |-> FALSE]

\* the user's callback is invoked now, in the current stack frame
invokeCallback(call, result) ==
    [call EXCEPT !.st = "delivered", !.result = result, !.cbCount = @ + 1,
                 !.early = @ \/ ~call.returned, !.returned = TRUE]

\* process.nextTick(callback.bind(null, result))  or  process.nextTick(callback)
scheduleCallback(call, result) ==
    [call EXCEPT !.st = "scheduled", !.result = result, !.returned = TRUE]

\* _loadMissingRefs(depth, callback) up to its request loop: either the
\* depth error goes to the callback at once, or a frame starts the loop.
loadMissingRefs(cs, c, depth, h, reg, rr, stk) ==
    LET missing == missingRefs(h, reg, rr)
    IN  IF tooDeep(missing, depth)
        THEN [calls |-> [cs EXCEPT ![c] =
                            invokeCallback(@, <<Err("DepthExceeded", missing)>>)],
              stack |-> stk]
        ELSE [calls |-> cs,
              stack |-> Append(stk, [call |-> c, depth |-> depth,
                                     missing |-> missing, index |-> 1,
                                     inLoader |-> FALSE])]

\* validate(instance, schema, callback) up to the first suspension
Validate(o) ==
    /\ UNCHANGED legacyVars /\ UNCHANGED formatVars
    /\ Len(calls) < MaxCalls
    /\ Idle \/ InLoader
    /\ LET c == Len(calls) + 1 IN
       IF o = Absent
       THEN /\ calls' = Append(calls, NewCall(o, TRUE, "scheduled",
                                              <<Err("NoSchema", <<>>)>>))
            /\ UNCHANGED <<addedIds, schemas, stack, threw>>
       ELSE LET ids2 == assignId(addedIds, o)
                h2 == HeapOf(ids2)
                st == register(h2, [reg |-> schemas, thrown |-> FALSE], Ref(o),
                               PropStr(h2, o, kId), Undef, Undef)
            IN  /\ addedIds' = ids2
                /\ IF st.thrown
                   THEN /\ schemas' = st.reg
                        /\ calls' = Append(calls, NewCall(o, TRUE, "threw", <<>>))
                        /\ threw' = TRUE
                        /\ UNCHANGED stack
                   ELSE IF cfg.loader
                   THEN LET L == loadMissingRefs(
                                     Append(calls, NewCall(o, TRUE, "loading", <<>>)),
                                     c, cfg.maxRecursion, h2, st.reg,
                                     refsRequested, stack)
                        IN  /\ schemas' = st.reg
                            /\ calls' = L.calls
                            /\ stack' = L.stack
                            /\ UNCHANGED threw
                   ELSE \E n \in RunnerErrCounts :
                          LET V == validateImpl(h2, st.reg, o, Undef, n)
                          IN  /\ schemas' = V.reg
                              /\ calls' = Append(calls,
                                     NewCall(o, TRUE, "scheduled", V.errs))
                              /\ UNCHANGED <<stack, threw>>
    /\ UNCHANGED <<refsRequested, promises, inflight, fetchLog, waiters, cfg, lastOp>>

\* validate(instance, schema) : the traditional, non-callback call
ValidateSync(o) ==
    /\ UNCHANGED legacyVars /\ UNCHANGED formatVars
    /\ Len(calls) < MaxCalls
    /\ Idle
    /\ IF o = Absent
       THEN /\ calls' = Append(calls, NewCall(o, FALSE, "returned",
                                              <<Err("NoSchema", <<>>)>>))
            /\ UNCHANGED <<addedIds, schemas, threw>>
       ELSE LET ids2 == assignId(addedIds, o)
                h2 == HeapOf(ids2)
                st == register(h2, [reg |-> schemas, thrown |-> FALSE], Ref(o),
                               PropStr(h2, o, kId), Undef, Undef)
                errs == syncErrs(cfg.loader)
            IN  /\ addedIds' = ids2
                /\ IF st.thrown
                   THEN /\ schemas' = st.reg
                        /\ calls' = Append(calls, NewCall(o, FALSE, "threw", <<>>))
                        /\ threw' = TRUE
                   ELSE \E n \in RunnerErrCounts :
                          LET V == validateImpl(h2, st.reg, o, Undef, n)
                          IN  /\ schemas' = V.reg
                              /\ calls' = Append(calls,
                                     NewCall(o, FALSE, "returned", errs \o V.errs))
                              /\ UNCHANGED threw
    /\ UNCHANGED <<refsRequested, promises, inflight, fetchLog, stack, waiters,
                   cfg, lastOp>>

\* one turn of the request loop: record the promise, then call the loader
LoaderCall ==
    /\ UNCHANGED legacyVars /\ UNCHANGED formatVars
    /\ stack # <<>>
    /\ ~Top.inLoader
    /\ Top.index <= Len(Top.missing)
    /\ LET ref == Top.missing[Top.index]
           p   == Len(promises) + 1
       IN  /\ promises' = Append(promises, [ref |-> ref, state |-> "pending"])
           /\ refsRequested' = PutRequested(refsRequested, normalizeId(ref), p)
           /\ fetchLog' = Append(fetchLog, [ref |-> ref, call |-> Top.call,
                                            depth |-> Top.depth, p |-> p])
           /\ inflight' = inflight \cup {[ref |-> ref, p |-> p]}
           /\ stack' = [stack EXCEPT ![Len(stack)].inLoader = TRUE]
    /\ UNCHANGED <<addedIds, schemas, calls, waiters, cfg, threw, lastOp>>

\* the loader returns to the request loop
LoaderReturn ==
    /\ UNCHANGED legacyVars /\ UNCHANGED formatVars
    /\ InLoader
    /\ stack' = [stack EXCEPT ![Len(stack)].inLoader = FALSE,
                              ![Len(stack)].index = @ + 1]
    /\ UNCHANGED <<addedIds, schemas, refsRequested, promises, inflight, fetchLog,
                   calls, waiters, cfg, threw, lastOp>>

FirstRejected(ps, snap) ==
    IF \E i \in 1..Len(snap) : ps[snap[i]].state = "rejected"
    THEN snap[CHOOSE i \in 1..Len(snap) :
                 /\ ps[snap[i]].state = "rejected"
                 /\ \A j \in 1..(i-1) : ps[snap[j]].state # "rejected"]
    ELSE 0

\* keys.all(this._refsRequested).then(...) : join the promises now in the table
LoopEnd ==
    /\ UNCHANGED legacyVars /\ UNCHANGED formatVars
    /\ stack # <<>>
    /\ ~Top.inLoader
    /\ Top.index > Len(Top.missing)
    /\ LET snap == [i \in 1..Len(refsRequested) |-> refsRequested[i].p]
       IN  waiters' = waiters \cup
               {[call |-> Top.call, depth |-> Top.depth,
                 issued |-> Len(Top.missing) # 0, snap |-> snap,
                 rej |-> FirstRejected(promises, snap)]}
    /\ calls' = [calls EXCEPT ![Top.call].returned = TRUE]
    /\ stack' = SubSeq(stack, 1, Len(stack) - 1)
    /\ UNCHANGED <<addedIds, schemas, refsRequested, promises, inflight, fetchLog,
                   cfg, threw, lastOp>>

InSnap(w, p) == \E i \in 1..Len(w.snap) : w.snap[i] = p

\* the loader calls done(loaderErr, schema) : onLoaded
LoaderDone(inv, ok, s) ==
    /\ UNCHANGED legacyVars /\ UNCHANGED formatVars
    /\ inv \in inflight
    /\ Idle \/ (InLoader /\ inv.ref = Top.missing[Top.index]
                          /\ refsRequested # <<>>
                          /\ inv.p = Len(promises))
    /\ inflight' = inflight \ {inv}
    /\ IF ~ok
       THEN /\ promises' = [promises EXCEPT ![inv.p].state = "rejected"]
            /\ waiters' = {IF InSnap(w, inv.p) /\ w.rej = 0
                           THEN [w EXCEPT !.rej = inv.p] ELSE w : w \in waiters}
            /\ UNCHANGED <<schemas, threw>>
       ELSE LET st == IF ~isRegistered(schemas, inv.ref)
                      THEN register(heap, [reg |-> schemas, thrown |-> FALSE],
                                    Ref(s), inv.ref, Undef, Undef)
                      ELSE [reg |-> schemas, thrown |-> FALSE]
            IN  /\ schemas' = st.reg
                /\ threw' = (threw \/ st.thrown)
                /\ promises' = IF st.thrown THEN promises
                               ELSE [promises EXCEPT ![inv.p].state = "fulfilled"]
                /\ UNCHANGED waiters
    /\ UNCHANGED <<addedIds, refsRequested, fetchLog, calls, stack, cfg, lastOp>>

\* a join that is satisfied by the first promise fulfilled
someFulfilled(ps, snap) == \E i \in 1..Len(snap) : ps[snap[i]].state = "fulfilled"

\* keys.all(...) is fulfilled: every promise joined is
allFulfilled(ps, snap) == \A i \in 1..Len(snap) : ps[snap[i]].state = "fulfilled"

\* every promise joined is fulfilled: recurse, or go on to validate
JoinFulfilled(w) ==
    /\ UNCHANGED legacyVars /\ UNCHANGED formatVars
    /\ Idle
    /\ w \in waiters
    /\ w.rej = 0
    /\ allFulfilled(promises, w.snap)
    /\ waiters' = waiters \ {w}
    /\ IF w.issued
       THEN LET L == loadMissingRefs(calls, w.call, w.depth - 1, heap, schemas,
                                     refsRequested, stack)
            IN  /\ calls' = L.calls
                /\ stack' = L.stack
                /\ UNCHANGED <<schemas, threw>>
       ELSE \E n \in RunnerErrCounts :
              LET V == validateImpl(heap, schemas, calls[w.call].schema, Undef, n)
              IN  /\ schemas' = V.reg
                  /\ threw' = (threw \/ V.thrown)
                  /\ calls' = [calls EXCEPT ![w.call] =
                                  IF V.thrown THEN [@ EXCEPT !.st = "threw"]
                                  ELSE scheduleCallback(@, V.errs)]
                  /\ UNCHANGED stack
    /\ UNCHANGED <<addedIds, refsRequested, promises, inflight, fetchLog, cfg, lastOp>>

\* one promise joined was rejected: callback([err]) from the rejection handler
JoinRejected(w) ==
    /\ UNCHANGED legacyVars /\ UNCHANGED formatVars
    /\ Idle
    /\ w \in waiters
    /\ w.rej # 0
    /\ waiters' = waiters \ {w}
    /\ calls' = [calls EXCEPT ![w.call] =
                    invokeCallback(@, <<Err("LoaderError", <<promises[w.rej].ref>>)>>)]
    /\ UNCHANGED <<addedIds, schemas, refsRequested, promises, inflight, fetchLog,
                   stack, cfg, threw, lastOp>>

\* the next tick: the callback scheduled by process.nextTick runs
Deliver(c) ==
    /\ UNCHANGED legacyVars /\ UNCHANGED formatVars
    /\ Idle
    /\ c \in 1..Len(calls)
    /\ calls[c].st = "scheduled"
    /\ calls[c].cb
    /\ calls' = [calls EXCEPT ![c].st = "delivered", ![c].cbCount = @ + 1]
    /\ UNCHANGED <<addedIds, schemas, refsRequested, promises, inflight, fetchLog,
                   stack, waiters, cfg, threw, lastOp>>

\* the public register(schema, resolutionScope)
Register(o, scope) ==
    /\ UNCHANGED legacyVars /\ UNCHANGED formatVars
    /\ Idle
    /\ LET st == register(heap, [reg |-> schemas, thrown |-> FALSE], Ref(o),
                          scope, Undef, Undef)
       IN  /\ schemas' = st.reg
           /\ threw' = (threw \/ st.thrown)
           /\ lastOp' = NoOp
    /\ UNCHANGED <<addedIds, refsRequested, promises, inflight, fetchLog, calls,
                   stack, waiters, cfg>>

\* getSchema(resolvedId) : a query, the registry is left as it is
GetSchema(uri) ==
    /\ UNCHANGED legacyVars /\ UNCHANGED formatVars
    /\ Idle
    /\ LET res == getSchema(heap, schemas, uri)
       IN  lastOp' = [op |-> "getSchema", uri |-> uri, res |-> res]
    /\ UNCHANGED <<addedIds, schemas, refsRequested, promises, inflight, fetchLog,
                   calls, stack, waiters, cfg, threw>>

\* the steps of an engine whose callers pass these schemas
EngineNext(asyncRoots, syncRoots, registerArgs) ==
    \/ \E o \in asyncRoots : Validate(o)
    \/ \E o \in syncRoots : ValidateSync(o)
    \/ LoaderCall
    \/ LoaderReturn
    \/ LoopEnd
    \/ \E inv \in inflight : \E ok \in BOOLEAN : \E s \in Remote(inv.ref) :
           LoaderDone(inv, ok, s)
    \/ \E w \in waiters : JoinFulfilled(w)
    \/ \E w \in waiters : JoinRejected(w)
    \/ \E c \in 1..Len(calls) : Deliver(c)
    \/ \E ra \in registerArgs : Register(ra[1], ra[2])

\* Spec: validate calls with a callback on an engine that has a loader; the
\* schemas need one, two or three rounds of fetches.
Init == InitWith({Cfg(TRUE, r) : r \in 0..MaxRecursionCfg})

Next == EngineNext({SA, SE, Absent}, {SA}, {<<SD2, Undef>>})

Spec == Init /\ [][Next]_vars

\* SpecChain: the chain A -> B -> C -> D, each ref found only after the
\* previous schema is loaded.
NextChain == EngineNext({SA, SC}, {SC}, {<<SD2, Undef>>})

SpecChain == Init /\ [][NextChain]_vars

\* SpecApi: every path of validate, with and without a loader, over schemas
\* with at most one missing ref.
InitApi == InitWith({Cfg(TRUE, 0), Cfg(TRUE, DEFAULT_MAX_RECURSION),
                     Cfg(FALSE, DEFAULT_MAX_RECURSION)})

NextApi == EngineNext({N1, N2, SU, SC, Absent}, {N1, N2, SU, Absent},
                      {<<SD2, Undef>>})

SpecApi == InitApi /\ [][NextApi]_vars

\* SpecStore: what is stored in the registry, by register, by validate and
\* by the loader's completions, with two writers for a base URI and for a
\* named fragment, and a validate that throws part-way through register.
InitStore == InitWith({Cfg(TRUE, DEFAULT_MAX_RECURSION)})

StoreRegisterArgs ==
    {<<SD2, Undef>>, <<SF, Undef>>, <<SF2, Undef>>, <<SFx, <<"F">>>>}

NextStore == EngineNext({SC}, {SF2, SN}, StoreRegisterArgs)

SpecStore == InitStore /\ [][NextStore]_vars

\* SpecRegistry: the registry on its own: register and getSchema.
InitRegistry == InitWith({Cfg(FALSE, DEFAULT_MAX_RECURSION)})

RegistryRoots == {SF, SF2, SFx, SW, SG, SN}

Scopes == {Undef, <<"F">>}

ptrX == <<"#", "/", "definitions", "/", "x">>

Probes == { <<"F">>, <<"F">> \o ptrX, <<"F">> \o fragName,
            <<"F", "#", "/", "definitions", "/", "y">>,
            <<"F", "#", "/", "type", "/", "x">>,
            <<"G", "#", "/", "enum", "/", "0">>,
            <<"G", "#", "/", "enum", "/", "0", "/", "x">>,
            <<"P">> \o fragName, <<"Q">> \o ptrX }

NextRegistry ==
    \/ \E o \in RegistryRoots : \E scope \in Scopes : Register(o, scope)
    \/ \E uri \in Probes : GetSchema(uri)

SpecRegistry == InitRegistry /\ [][NextRegistry]_vars

\* SpecRounds: calls whose first round holds two fetches and whose later
\* rounds depend on what the first one loaded.
NextRounds == EngineNext({SE}, {SD}, {<<SD2, Undef>>})

SpecRounds == Init /\ [][NextRounds]_vars

\* SpecAnswers: a loader that answers a ref with a schema that declares the
\* id asked for, no id, or another id; register races with the loader.
AnyAnswer(ref) == IF ref = <<"D">> THEN {SD, N1, SB} ELSE Remote(ref)

NextAnswers ==
    \/ Validate(SC)
    \/ ValidateSync(SC)
    \/ LoaderCall
    \/ LoaderReturn
    \/ LoopEnd
    \/ \E inv \in inflight : \E ok \in BOOLEAN : \E s \in AnyAnswer(inv.ref) :
           LoaderDone(inv, ok, s)
    \/ \E w \in waiters : JoinFulfilled(w)
    \/ \E w \in waiters : JoinRejected(w)
    \/ \E c \in 1..Len(calls) : Deliver(c)
    \/ Register(SD2, Undef)

SpecAnswers == Init /\ [][NextAnswers]_vars

\* SpecLive: the loader calls done once for every invocation, with an error
\* or with a schema (one of them with a null-valued field), and the event loop
\* runs every handler that is due.
LiveAnswer(ref) == IF ref = <<"D">> THEN {SD, SDn} ELSE Remote(ref)

LoaderDoneStep ==
    \E inv \in inflight : \E ok \in BOOLEAN : \E s \in LiveAnswer(inv.ref) :
        LoaderDone(inv, ok, s)

JoinFulfilledStep == \E w \in waiters : JoinFulfilled(w)

JoinRejectedStep == \E w \in waiters : JoinRejected(w)

DeliverStep == \E c \in 1..Len(calls) : Deliver(c)

NextLive ==
    \/ \E o \in {SB, SC} : Validate(o)
    \/ ValidateSync(SC)
    \/ LoaderCall
    \/ LoaderReturn
    \/ LoopEnd
    \/ LoaderDoneStep
    \/ JoinFulfilledStep
    \/ JoinRejectedStep
    \/ DeliverStep
    \/ Register(SD2, Undef)

SpecLive ==
    /\ Init
    /\ [][NextLive]_vars
    /\ WF_vars(LoaderCall) /\ WF_vars(LoaderReturn) /\ WF_vars(LoopEnd)
    /\ WF_vars(LoaderDoneStep)
    /\ WF_vars(JoinFulfilledStep) /\ WF_vars(JoinRejectedStep)
    /\ WF_vars(DeliverStep)

\* validate(instance, 'id', ...) : a schema given as a string
\*   schema = this._schemaRegistry.get(schema) || { $ref: schema }
\* The object validate goes on with: what the registry holds under the string,
\* or else a new object {$ref: string}. The lookup may throw, and a string
\* found under the pointer cannot take the id validate assigns next.
schemaOfString(h, reg, id) ==
    LET got == getSchema(h, reg, id)
    IN  IF got.t = "throw" \/ (got.t = "str" /\ got.s # <<>>)
        THEN [thrown |-> TRUE, o |-> Absent]
        ELSE IF got.t = "ref" THEN [thrown |-> FALSE, o |-> got.a]
        ELSE [thrown |-> FALSE,
              o |-> CHOOSE a \in DOMAIN World : World[a].kv = <<Fld(kRef, Str(id))>>]

ValidateString(id, cb) ==
    LET arg == schemaOfString(heap, schemas, id)
    IN  IF arg.thrown
        THEN /\ Len(calls) < MaxCalls
             /\ Idle
             /\ calls' = Append(calls, NewCall(Absent, cb, "threw", <<>>))
             /\ threw' = TRUE
             /\ UNCHANGED <<addedIds, schemas, refsRequested, promises, inflight,
                            fetchLog, stack, waiters, cfg, lastOp>>
             /\ UNCHANGED legacyVars /\ UNCHANGED formatVars
        ELSE IF cb THEN Validate(arg.o) ELSE ValidateSync(arg.o)

\* SpecFrame: schemas given as objects and as strings, to an engine without a
\* loader whose registry may already hold the schema the string names.
InitFrame == InitWith({Cfg(FALSE, DEFAULT_MAX_RECURSION)})

StringArgs == {refOtherY, refOtherYType}

NextFrame ==
    \/ \E o \in {SO, N1} : Validate(o)
    \/ \E o \in {SO, N1} : ValidateSync(o)
    \/ \E id \in StringArgs : \E cb \in BOOLEAN : ValidateString(id, cb)
    \/ DeliverStep
    \/ Register(SO, Undef)

SpecFrame == InitFrame /\ [][NextFrame]_vars

-----------------------------------------------------------------------------
(* The format handler registry: addFormat                                  *)

TrueV == [t |-> "bool", s |-> Undef, a |-> ""]

\* the user's handlers: what handler(config.inst, config.schema) returns
FormatHandlers == {"hNull", "hText", "hEmpty", "hTrue", "hUndef", "hByInst"}

FormatNames == {"f1", "f2"}

FormatInsts == {"ok", "bad"}

HandlerResult(handler, inst) ==
    CASE handler = "hNull"   -> NullV
      [] handler = "hText"   -> Str(<<"not", " ", "valid">>)
      [] handler = "hEmpty"  -> Str(<<>>)
      [] handler = "hTrue"   -> TrueV
      [] handler = "hUndef"  -> UndefV
      [] handler = "hByInst" -> IF inst = "ok" THEN NullV ELSE Str(<<"bad">>)

\* new Errors.FormatValidationError(..., 'format', attributeName, inst, desc)
FormatValidationError(name, inst, desc) ==
    [kind |-> "FormatValidationError", attr |-> name, inst |-> inst,
     desc |-> desc]

genericDesc == <<"failed custom format validation">>

\* a wrapper that takes every result that is not a string for success
handlerWrapperStringsOnly(handler, name, inst) ==
    LET result == HandlerResult(handler, inst)
    IN  IF result.t = "str"
        THEN <<FormatValidationError(name, inst, result.s)>>
        ELSE <<>>

\* handlerWrapper(config) : the wrapper addFormat makes for a handler
handlerWrapper(handler, name, inst) ==
    LET result == HandlerResult(handler, inst)
    IN  IF result.t = "str"
        THEN <<FormatValidationError(name, inst, result.s)>>
        ELSE IF result # NullV
        THEN <<FormatValidationError(name, inst, genericDesc)>>
        ELSE <<>>

HasFormat(fs, name) == \E i \in 1..Len(fs) : fs[i].name = name

\* this._customFormatHandlers[name] : the handler wrapped, "" when not there
FormatOf(fs, name) ==
    IF HasFormat(fs, name)
    THEN fs[CHOOSE i \in 1..Len(fs) : fs[i].name = name].handler
    ELSE ""

\* this._customFormatHandlers[attributeName] = handlerWrapper
PutFormat(fs, name, handler) ==
    IF HasFormat(fs, name)
    THEN [i \in 1..Len(fs) |-> IF fs[i].name = name
                                THEN [name |-> name, handler |-> handler]
                                ELSE fs[i]]
    ELSE Append(fs, [name |-> name, handler |-> handler])

\* addFormat(attributeName, handler)
AddFormat(name, handler) ==
    /\ formats' = PutFormat(formats, name, handler)
    /\ formatOut' = [op |-> "addFormat", name |-> name, handler |-> handler,
                     inst |-> "", errs |-> <<>>]
    /\ UNCHANGED <<addedIds, schemas, refsRequested, promises, inflight, fetchLog,
                   calls, stack, waiters, cfg, threw, lastOp>>
    /\ UNCHANGED legacyVars

\* the dialect runner calls the wrapper stored for a format on an instance
CallFormat(name, inst) ==
    /\ HasFormat(formats, name)
    /\ formatOut' = [op |-> "call", name |-> name,
                     handler |-> FormatOf(formats, name), inst |-> inst,
                     errs |-> handlerWrapper(FormatOf(formats, name), name, inst)]
    /\ UNCHANGED <<addedIds, schemas, refsRequested, promises, inflight, fetchLog,
                   calls, stack, waiters, cfg, threw, lastOp>>
    /\ UNCHANGED legacyVars /\ UNCHANGED formats

\* SpecFormat: the format handler registry on its own
InitFormat == InitWith({Cfg(FALSE, DEFAULT_MAX_RECURSION)})

NextFormat ==
    \/ \E name \in FormatNames : \E handler \in FormatHandlers :
           AddFormat(name, handler)
    \/ \E name \in FormatNames : \E inst \in FormatInsts :
           CallFormat(name, inst)

SpecFormat == InitFormat /\ [][NextFormat]_vars

-----------------------------------------------------------------------------
(* The legacy validator: src/jayschema.js                                  *)

\* uuid.uuid4() : a value no earlier call gave.  Every id made from one is
\* registered before the next is drawn, so the size of the registry numbers them.
uuid4(reg) == <<"uuid", ToString(Len(reg) + 1)>>

\* ANON_URI_SCHEME + '://' + uuid.uuid4() + '#'
anonId(reg) == <<"anon-schema", ":", "/", "/">> \o uuid4(reg) \o <<"#">>

\* decodeURI : escapes of unreserved characters are decoded, '%23' is kept
decodeURI(s) == [i \in 1..Len(s) |-> IF s[i] = "%7E" THEN "~" ELSE s[i]]

schemaTestSets == { DEFAULT_SCHEMA_VERSION }

\* !schema
Falsy(v) == v.t \in {"null", "undef"} \/ (v.t = "str" /\ v.s = Undef)

\* a variant of notAvailable that lets every looked-up value through
notAvailableNever(v) == FALSE

\* if (!schema) after getSchema(ref): the schema referenced is not available
notAvailable(v) == Falsy(v)

\* new TestSetClass(...).run() for the schema at v; n errors from the test set.
\* A dialect without test set makes `new undefined` a TypeError.
legacyRun(h, v, n) ==
    LET dialect == IF v.t = "ref"
                   THEN Or(PropStr(h, v.a, kSchema), DEFAULT_SCHEMA_VERSION)
                   ELSE DEFAULT_SCHEMA_VERSION
    IN  IF dialect \in schemaTestSets
        THEN [thrown |-> FALSE, errs |-> RunnerErrors(n)]
        ELSE [thrown |-> TRUE, errs |-> <<>>]

\* the legacy _validateImpl(instance, schema, resolutionScope).  Gives
\* [reg, thrown, errs].
legacyValidateImpl(h, reg, a, resolutionScope, n) ==
    LET schemaId == Or(PropStr(h, a, kId), anonId(reg))
        st       == register(h, [reg |-> reg, thrown |-> FALSE], Ref(a),
                             resolutionScope, schemaId, Undef)
        scope    == Or(resolutionScope, schemaId)
        ref      == resolve(scope, decodeURI(PropStr(h, a, kRef)))
        target   == IF HasOwn(h, a, kRef) THEN getSchema(h, st.reg, ref)
                    ELSE Ref(a)
        run      == legacyRun(h, target, n)
    IN  IF st.thrown \/ target = ThrowV
        THEN [reg |-> st.reg, thrown |-> TRUE, errs |-> <<>>]
        ELSE IF HasOwn(h, a, kRef) /\ notAvailable(target)
        THEN [reg |-> st.reg, thrown |-> FALSE,
              errs |-> <<Err("SchemaNotAvailable", <<ref>>)>>]
        ELSE IF Falsy(target)
        THEN [reg |-> st.reg, thrown |-> FALSE, errs |-> <<>>]
        ELSE [reg |-> st.reg, thrown |-> run.thrown, errs |-> run.errs]

\* the legacy validate(instance, schema) : no callback
LegacyValidateSync(o) ==
    /\ Len(calls) < MaxCalls
    /\ LET schemaId == Or(PropStr(heap, o, kId), anonId(schemas))
           st == register(heap, [reg |-> schemas, thrown |-> FALSE], Ref(o),
                          Undef, schemaId, Undef)
       IN  IF st.thrown
           THEN /\ schemas' = st.reg
                /\ calls' = Append(calls, NewCall(o, FALSE, "threw", <<>>))
                /\ threw' = TRUE
           ELSE \E n \in RunnerErrCounts :
                  LET V == legacyValidateImpl(heap, st.reg, o, Undef, n)
                  IN  /\ schemas' = V.reg
                      /\ calls' = Append(calls,
                             NewCall(o, FALSE,
                                     IF V.thrown THEN "threw" ELSE "returned",
                                     V.errs))
                      /\ threw' = (threw \/ V.thrown)
    /\ UNCHANGED <<addedIds, refsRequested, promises, inflight, fetchLog, stack,
                   waiters, cfg, lastOp>>
    /\ UNCHANGED legacyVars /\ UNCHANGED formatVars

LEGACY_MAX_PRELOAD == 5

\* what downloadSchema hands to its callback for a URL
Downloaded(ref) ==
    IF ref = httpB THEN {LB} ELSE IF ref = httpC THEN {LC} ELSE {}

\* parts.protocol && parts.protocol.slice(0, 4) === 'http'
IsHttp(ref) == IsAbsolute(ref) /\ ref[1] \in {"http", "https"}

\* _recursivePreload: the refs of the schema that are to be fetched
preloadRefs(h, reg, urls, a) ==
    SelectSeq(refsIn(h, Ref(a)),
              LAMBDA ref : /\ ~HasBase(reg, ref)
                           /\ ~(\E i \in 1..Len(urls) : urls[i] = ref)
                           /\ IsHttp(ref))

\* one invocation of _recursivePreload: the callback it was given (parent 0 is
\* the function validate passes, parent j the function of invocation j), its
\* errs, completedCount and totalCount, and the argument of a callback it has
\* handed to process.nextTick
Preload(parent, call, depth, total, st, arg) ==
    [parent |-> parent, call |-> call, depth |-> depth, total |-> total,
     completed |-> 0, errs |-> <<>>, st |-> st, arg |-> arg]

\* _recursivePreload(schema, depth, callback) up to its return.  L is
\* [preloads, urls, downloads].
recursivePreload(L, h, reg, a, depth, parent, call) ==
    LET refs == preloadRefs(h, reg, L.urls, a)
        me   == Len(L.preloads) + 1
    IN  IF Len(refs) = 0
        THEN [L EXCEPT !.preloads =
                 Append(@, Preload(parent, call, depth, 0, "tick", <<>>))]
        ELSE IF depth = 0
        THEN [L EXCEPT !.preloads =
                 Append(@, Preload(parent, call, depth, 0, "tick",
                                   <<Err("DepthExceeded", refs)>>))]
        ELSE [preloads  |-> Append(L.preloads,
                               Preload(parent, call, depth, Len(refs), "waiting", <<>>)),
              urls      |-> L.urls \o refs,
              downloads |-> L.downloads \cup
                               {[ref |-> refs[i], pre |-> me, n |-> i] :
                                    i \in 1..Len(refs)}]

\* the callback given to invocation i is called with arg.  For an inner
\* invocation that is function(moreErrs) of its parent: concat, count, and
\* call the parent's callback when the count is complete.  Gives the preloads
\* and, when the call reaches the function validate passed, its argument.
RECURSIVE preloadCallback(_, _, _)
preloadCallback(ps, i, arg) ==
    LET j == ps[i].parent
    IN  IF j = 0 THEN [preloads |-> ps, top |-> TRUE, errs |-> arg]
        ELSE LET ps2 == [ps EXCEPT ![j].errs = @ \o arg,
                                   ![j].completed = @ + 1]
             IN  IF ps2[j].completed = ps2[j].total
                 THEN preloadCallback([ps2 EXCEPT ![j].st = "done"], j, ps2[j].errs)
                 ELSE [preloads |-> ps2, top |-> FALSE, errs |-> <<>>]

\* the legacy validate(instance, schema, callback)
LegacyValidate(o) ==
    /\ Len(calls) < MaxCalls
    /\ LET c  == Len(calls) + 1
           schemaId == Or(PropStr(heap, o, kId), anonId(schemas))
           st == register(heap, [reg |-> schemas, thrown |-> FALSE], Ref(o),
                          Undef, schemaId, Undef)
           L  == recursivePreload([preloads |-> preloads, urls |-> urlsRequested,
                                   downloads |-> downloads],
                                  heap, st.reg, o, LEGACY_MAX_PRELOAD, 0, c)
       IN  /\ schemas' = st.reg
           /\ threw' = (threw \/ st.thrown)
           /\ IF st.thrown
              THEN /\ calls' = Append(calls, NewCall(o, TRUE, "threw", <<>>))
                   /\ UNCHANGED legacyVars
              ELSE /\ calls' = Append(calls,
                          [NewCall(o, TRUE, "loading", <<>>) EXCEPT !.returned = TRUE])
                   /\ preloads' = L.preloads
                   /\ urlsRequested' = L.urls
                   /\ downloads' = L.downloads
    /\ UNCHANGED <<addedIds, refsRequested, promises, inflight, fetchLog, stack,
                   waiters, cfg, lastOp>>
    /\ UNCHANGED formatVars

\* downloadSchema calls back: function(err, schema)
DownloadDone(d, ok, s) ==
    /\ d \in downloads
    /\ IF ~ok
       THEN /\ preloads' = [preloads EXCEPT ![d.pre].errs =
                                Append(@, Err("DownloadError", <<d.ref>>))]
            /\ downloads' = downloads \ {d}
            /\ UNCHANGED <<schemas, threw, urlsRequested>>
       ELSE LET st == register(heap, [reg |-> schemas, thrown |-> FALSE], Ref(s),
                               d.ref, d.ref, Undef)
                L  == recursivePreload([preloads |-> preloads,
                                        urls |-> urlsRequested,
                                        downloads |-> downloads \ {d}],
                                       heap, st.reg, s, preloads[d.pre].depth - 1,
                                       d.pre, preloads[d.pre].call)
            IN  /\ schemas' = st.reg
                /\ threw' = (threw \/ st.thrown)
                /\ IF st.thrown
                   THEN /\ downloads' = downloads \ {d}
                        /\ UNCHANGED <<preloads, urlsRequested>>
                   ELSE /\ preloads' = L.preloads
                        /\ urlsRequested' = L.urls
                        /\ downloads' = L.downloads
    /\ UNCHANGED <<addedIds, refsRequested, promises, inflight, fetchLog, calls,
                   stack, waiters, cfg, lastOp>>
    /\ UNCHANGED formatVars

\* the next tick: a callback that _recursivePreload handed to process.nextTick
\* runs; when it reaches the function validate passed, validation runs and the
\* user's callback is called
PreloadTick(i) ==
    /\ i \in 1..Len(preloads)
    /\ preloads[i].st = "tick"
    /\ LET R == preloadCallback([preloads EXCEPT ![i].st = "done"], i,
                                preloads[i].arg)
           c == preloads[i].call
       IN  /\ preloads' = R.preloads
           /\ IF ~R.top
              THEN UNCHANGED <<schemas, calls, threw>>
              ELSE IF Len(R.errs) # 0
              THEN /\ calls' = [calls EXCEPT ![c] = invokeCallback(@, R.errs)]
                   /\ UNCHANGED <<schemas, threw>>
              ELSE \E n \in RunnerErrCounts :
                     LET V == legacyValidateImpl(heap, schemas, calls[c].schema,
                                                 Undef, n)
                     IN  /\ schemas' = V.reg
                         /\ threw' = (threw \/ V.thrown)
                         /\ calls' = [calls EXCEPT ![c] =
                                IF V.thrown THEN [@ EXCEPT !.st = "threw"]
                                ELSE invokeCallback(@, V.errs)]
    /\ UNCHANGED <<addedIds, refsRequested, promises, inflight, fetchLog, stack,
                   waiters, cfg, lastOp, urlsRequested, downloads>>
    /\ UNCHANGED formatVars

\* SpecLegacy: the legacy validator, with and without callback; downloadSchema
\* calls back once for every download, the event loop runs every tick.
InitLegacy == InitWith({Cfg(FALSE, DEFAULT_MAX_RECURSION)})

LegacyDownloadStep ==
    \E d \in downloads : \E ok \in BOOLEAN : \E s \in Downloaded(d.ref) :
        DownloadDone(d, ok, s)

LegacyTickStep == \E i \in 1..Len(preloads) : PreloadTick(i)

NextLegacy ==
    \/ \E o \in {LE, SR} : LegacyValidate(o)
    \/ \E o \in {SR, SRI} : LegacyValidateSync(o)
    \/ LegacyDownloadStep
    \/ LegacyTickStep
    \/ Register(SO, Undef)

\* a callback handed to process.nextTick has not run yet: the condition under
\* which LegacyTickStep is enabled
TickDue == \E i \in 1..Len(preloads) : preloads[i].st = "tick"

\* downloadSchema calls back for every download (weak fairness of
\* LegacyDownloadStep) and the event loop runs every tick that is due (weak
\* fairness of LegacyTickStep, its enabling condition written as TickDue)
SpecLegacy ==
    /\ InitLegacy
    /\ [][NextLegacy]_vars
    /\ WF_vars(LegacyDownloadStep)
    /\ ([]<>~TickDue \/ []<><<LegacyTickStep>>_vars)

-----------------------------------------------------------------------------
(* Properties                                                              *)

Finished(call) == call.st \in {"returned", "scheduled", "delivered"}

Kinds(result) == {result[i].kind : i \in 1..Len(result)}

\* C1: over the engine's lifetime the loader is invoked at most once for each
\* normalized ref, whatever the interleaving of validate calls, a validate
\* started from inside the loader included.
C1_FetchOncePerRef ==
    \A i, j \in 1..Len(fetchLog) :
        normalizeId(fetchLog[i].ref) = normalizeId(fetchLog[j].ref) => i = j

\* the refs the chain from a schema needs, one per round of fetches
ChainFrom(o) == IF o = SA THEN << <<"B">>, <<"C">>, <<"D">> >>
                ELSE IF o = SC THEN << <<"D">> >> ELSE <<>>

\* one validate call with a callback, on a fresh engine, every fetch answered
\* with the schema asked for
SingleChainCall ==
    /\ Len(calls) = 1
    /\ calls[1].cb
    /\ calls[1].schema \in {SA, SC}
    /\ calls[1].st = "delivered"
    /\ \A p \in 1..Len(promises) : promises[p].state # "rejected"
    /\ \A i \in 1..Len(schemas) : schemas[i].schema # SD2

\* C2: the loader never issues a fetch with a depth budget of 0; a single
\* validate on a fresh engine whose chain needs k rounds of fetches closes the
\* graph when maxRecursion >= k, and otherwise fails with one depth-exceeded
\* error naming the ref that is still unresolved.
C2_DepthBound ==
    /\ \A i \in 1..Len(fetchLog) : fetchLog[i].depth >= 1
    /\ SingleChainCall =>
         LET chain == ChainFrom(calls[1].schema)
             k     == Len(chain)
         IN  IF cfg.maxRecursion >= k
             THEN /\ "DepthExceeded" \notin Kinds(calls[1].result)
                  /\ getMissingSchemas(heap, schemas) = <<>>
                  /\ Len(fetchLog) = k
             ELSE /\ calls[1].result =
                        <<Err("DepthExceeded", <<chain[cfg.maxRecursion + 1]>>)>>
                  /\ Len(fetchLog) = cfg.maxRecursion

C2_Witness ==
    /\ SingleChainCall
    /\ calls[1].schema = SA
    /\ cfg.maxRecursion = 2
    /\ calls[1].result = <<Err("DepthExceeded", << <<"D">> >>)>>

\* C3: the callback passed to validate is never invoked before that validate
\* call has returned.
C3_CallbackAfterReturn ==
    \A c \in 1..Len(calls) : ~calls[c].early

\* the list _validateImpl gives for a schema: the unsupported-dialect error
\* alone, or what the dialect runner reports
IsImplResult(o, errs) ==
    IF Or(PropStr(heap, o, kSchema), DEFAULT_SCHEMA_VERSION) \notin testRunners
    THEN Len(errs) = 1 /\ errs[1].kind = "UnsupportedDialect"
    ELSE Kinds(errs) \subseteq {"Runner"}

SyncLoaderCall(c) ==
    c \in 1..Len(calls) /\ ~calls[c].cb /\ cfg.loader /\ calls[c].st = "returned"

\* C4 as stated: every validate without a callback on an engine with a loader
\* returns a list whose first element is the loader-misuse error.
C4_MisuseFirstAlways ==
    \A c \in 1..Len(calls) :
        SyncLoaderCall(c) =>
            Len(calls[c].result) >= 1 /\ calls[c].result[1].kind = "LoaderAsync"

\* a step in which a validate without a callback ran
SyncStep ==
    /\ Len(calls') = Len(calls) + 1
    /\ ~calls'[Len(calls')].cb

\* C4 amended: when a schema is passed, the list returned by a validate without
\* a callback on an engine with a loader starts with the loader-misuse error
\* and goes on with the internal validation's errors; when no schema is passed
\* it is the schema-absent error alone.  The call never invokes the loader and
\* leaves the pending-request table as it was.
C4_SyncWithLoader ==
    /\ [](\A c \in 1..Len(calls) :
            SyncLoaderCall(c) =>
               IF calls[c].schema = Absent
               THEN calls[c].result = <<Err("NoSchema", <<>>)>>
               ELSE /\ Len(calls[c].result) >= 1
                    /\ calls[c].result[1] = Err("LoaderAsync", <<>>)
                    /\ IsImplResult(calls[c].schema, Tail(calls[c].result)))
    /\ [][SyncStep => UNCHANGED <<refsRequested, promises, inflight, fetchLog>>]_vars

C4_Witness ==
    \E c \in 1..Len(calls) :
        /\ SyncLoaderCall(c)
        /\ calls[c].schema = N1
        /\ Len(calls[c].result) = 3
        /\ calls[c].result[1].kind = "LoaderAsync"

Structural == {"NoSchema", "LoaderAsync", "UnsupportedDialect", "DepthExceeded"}

\* C5 as stated: a result that holds a structural/configuration error holds
\* nothing else.
C5_StructuralAlone ==
    \A c \in 1..Len(calls) :
        (Finished(calls[c]) /\ Kinds(calls[c].result) \cap Structural # {})
            => Len(calls[c].result) = 1

\* C5 amended: schema absent, depth exceeded and unsupported dialect each give
\* a list of exactly one error, with no error of the dialect runner, except
\* that a validate without a callback on an engine with a loader does not
\* short-circuit: its list is the loader-misuse error followed by the internal
\* validation's list (the unsupported-dialect error, or the runner's errors).
C5_ShortCircuit ==
    \A c \in 1..Len(calls) :
        LET r == calls[c].result
        IN  (Finished(calls[c]) /\ Kinds(r) \cap Structural # {}) =>
              IF "LoaderAsync" \in Kinds(r)
              THEN /\ SyncLoaderCall(c)
                   /\ r[1].kind = "LoaderAsync"
                   /\ IsImplResult(calls[c].schema, Tail(r))
              ELSE Len(r) = 1

C5_Witness ==
    \E c \in 1..Len(calls) :
        /\ SyncLoaderCall(c)
        /\ calls[c].schema = SU
        /\ Len(calls[c].result) = 2
        /\ calls[c].result[2].kind = "UnsupportedDialect"

\* C6: register and validate return normally for every schema value, one
\* with a null-valued field included: neither ever throws.
C6_NoThrow == ~threw

Validated(o) ==
    \E c \in 1..Len(calls) : calls[c].schema = o /\ calls[c].st # "threw"

EntriesStoring(objs) == {i \in 1..Len(schemas) : schemas[i].schema \in objs}

\* C7: once one or both of two structurally identical schema objects without
\* id have been validated, in any order and any number of times, the registry
\* holds exactly one entry for them, under the id derived from their content.
C7_AnonymousOneEntry ==
    (Validated(N1) \/ Validated(N2)) =>
        /\ Cardinality(EntriesStoring({N1, N2})) = 1
        /\ \A o \in {N1, N2} :
              Validated(o) =>
                 /\ PropStr(heap, o, kId) = getObjectHash(World, o)
                 /\ isRegistered(schemas, PropStr(heap, o, kId))

C7_Witness ==
    /\ Validated(N1)
    /\ Validated(N2)
    /\ Cardinality(EntriesStoring({N1, N2})) = 1

IdBearing == {o \in DOMAIN World : PropStr(World, o, kId) # Undef}

\* C8: for every schema that bears an id and every registry state, a second
\* register(schema, scope) leaves the registry as the first one left it.
C8_RegisterIdempotent ==
    \A o \in IdBearing : \A scope \in Scopes :
        LET first  == register(heap, [reg |-> schemas, thrown |-> FALSE],
                               Ref(o), scope, Undef, Undef)
            second == register(heap, [reg |-> first.reg, thrown |-> FALSE],
                               Ref(o), scope, Undef, Undef)
        IN  second.reg = first.reg

\* C9: the registry never evicts or overwrites: in every step, every base URI
\* registered stays registered with the schema object it had, and every named
\* fragment mapped keeps its path.
C9_NeverOverwrites ==
    [][\A i \in 1..Len(schemas) :
          /\ i <= Len(schemas')
          /\ schemas'[i].uri = schemas[i].uri
          /\ schemas'[i].schema = schemas[i].schema
          /\ \A j \in 1..Len(schemas[i].frags) :
                /\ j <= Len(schemas'[i].frags)
                /\ schemas'[i].frags[j] = schemas[i].frags[j]]_vars

\* a second writer came for a base URI and for a named fragment, and the
\* first ones are kept
C9_Witness ==
    /\ \E i \in 1..Len(schemas) :
          /\ schemas[i].uri = <<"D">>
          /\ schemas[i].schema = SD
    /\ \E i \in 1..Len(schemas) :
          /\ schemas[i].uri = <<"F">>
          /\ schemas[i].schema = SF
          /\ schemas[i].frags = <<[f |-> fragName, p |-> ptrX]>>
    /\ Validated(SF2)

\* the pointer walks into a value that has no such field
RECURSIVE NamesMissingField(_, _, _)
NamesMissingField(h, cur, path) ==
    IF Len(path) = 0 THEN FALSE
    ELSE IF cur.t # "ref" THEN TRUE
    ELSE IF ~HasOwn(h, cur.a, Head(path)) THEN TRUE
    ELSE NamesMissingField(h, Prop(h, cur.a, Head(path)), Tail(path))

IsPointer(uri) ==
    Len(UrlHash(uri)) >= 2 /\ SubSeq(UrlHash(uri), 1, 2) = <<"#", "/">>

\* C10: for every registered schema with a sub-schema at #/definitions/x,
\* getSchema(base + "#/definitions/x") is that sub-schema, and so is
\* getSchema(base + "#frag") when the sub-schema declares the id "#frag";
\* getSchema gives absent for an unknown base URI and for a pointer that
\* names a missing field.
C10_FragmentRoundTrip ==
    /\ \A i \in 1..Len(schemas) :
          LET top  == schemas[i].schema
              defs == Prop(heap, top, kDefs)
          IN  (defs.t = "ref" /\ Prop(heap, defs.a, kX).t = "ref") =>
                LET x == Prop(heap, defs.a, kX)
                IN  /\ getSchema(heap, schemas, schemas[i].uri \o ptrX) = x
                    /\ PropStr(heap, x.a, kId) = fragName =>
                         getSchema(heap, schemas, schemas[i].uri \o fragName) = x
    /\ lastOp.op = "getSchema" =>
          /\ ~HasBase(schemas, UrlBase(lastOp.uri)) => lastOp.res = NullV
          /\ ( /\ HasBase(schemas, UrlBase(lastOp.uri))
               /\ IsPointer(lastOp.uri)
               /\ NamesMissingField(heap,
                      Ref(EntryOf(schemas, UrlBase(lastOp.uri)).schema),
                      Split(Slice(UrlHash(lastOp.uri), 2))) )
             => lastOp.res = NullV

\* the ref a schema's $ref resolves to in the legacy validator
LegacyScopeOf(o, r) ==
    IF PropStr(heap, o, kId) # Undef THEN PropStr(heap, o, kId)
    ELSE SubSeq(r, 1, 5) \o <<"#">>

EndsWith(r, tail) ==
    Len(r) >= Len(tail) /\ SubSeq(r, Len(r) - Len(tail) + 1, Len(r)) = tail

\* a validate without callback on a schema that is a $ref to other#/definitions/y
UnresolvedSyncCall(c) ==
    /\ c \in 1..Len(calls)
    /\ ~calls[c].cb
    /\ calls[c].schema \in {SR, SRI}
    /\ calls[c].st = "returned"

\* a step in which a legacy validate without a callback ran
LegacySyncStep ==
    /\ Len(calls') = Len(calls) + 1
    /\ ~calls'[Len(calls')].cb

\* C11: a validate without callback against {$ref: "other#/definitions/y"},
\* while the schema the ref resolves to is not registered, returns exactly one
\* error, the schema-not-available error naming the resolved ref (which ends
\* in other#/definitions/y); the test set reports nothing and nothing is
\* fetched by the call.
C11_UnresolvedRefSync ==
    /\ [](\A c \in 1..Len(calls) :
            UnresolvedSyncCall(c) =>
               \/ /\ Len(calls[c].result) = 1
                  /\ calls[c].result[1].kind = "SchemaNotAvailable"
                  /\ LET r == calls[c].result[1].refs[1]
                     IN  /\ EndsWith(r, refOtherY)
                         /\ r = resolve(LegacyScopeOf(calls[c].schema, r), refOtherY)
                         /\ calls[c].schema = SR => ~HasBase(schemas, UrlBase(r))
               \/ /\ calls[c].schema = SRI
                  /\ HasBase(schemas, <<"other">>)
                  /\ Kinds(calls[c].result) \subseteq {"Runner"})
    /\ [][LegacySyncStep =>
             /\ UNCHANGED <<urlsRequested, downloads, preloads, fetchLog>>
             /\ (calls'[Len(calls')].schema = SRI /\ ~HasBase(schemas, <<"other">>))
                    => Kinds(calls'[Len(calls')].result) = {"SchemaNotAvailable"}]_vars

C11_Witness ==
    \E c \in 1..Len(calls) :
        /\ UnresolvedSyncCall(c)
        /\ calls[c].schema = SR
        /\ Len(calls[c].result) = 1
        /\ calls[c].result[1].kind = "SchemaNotAvailable"
        /\ EndsWith(calls[c].result[1].refs[1], refOtherY)

\* C12: the wrapper stored by addFormat gives no error when the handler
\* returns null, one FormatValidationError carrying the string when it returns
\* a string, and one FormatValidationError with the generic description for
\* every other result; addFormat for a name makes that name's wrapper the new
\* one and leaves the wrappers of the other names as they were.
C12_FormatWrapper ==
    /\ [](formatOut.op = "call" =>
            LET result == HandlerResult(formatOut.handler, formatOut.inst)
                errs   == formatOut.errs
            IN  /\ result = NullV => errs = <<>>
                /\ result.t = "str" =>
                      /\ Len(errs) = 1
                      /\ errs[1].kind = "FormatValidationError"
                      /\ errs[1].desc = result.s
                /\ (result # NullV /\ result.t # "str") =>
                      /\ Len(errs) = 1
                      /\ errs[1].kind = "FormatValidationError"
                      /\ errs[1].desc = genericDesc)
    /\ [](formatOut.op = "addFormat" =>
            FormatOf(formats, formatOut.name) = formatOut.handler)
    /\ [][\A name \in FormatNames :
             \/ FormatOf(formats', name) = FormatOf(formats, name)
             \/ /\ formatOut'.op = "addFormat"
                /\ formatOut'.name = name]_vars

\* with two formats stored, the wrapper of the first was called on a handler
\* result that is neither null nor a string
C12_Witness ==
    /\ formatOut.op = "call"
    /\ formatOut.handler \in {"hTrue", "hUndef"}
    /\ Len(formatOut.errs) = 1
    /\ Len(formats) = 2
    /\ formats[1].name = formatOut.name

\* C13: whenever the loader reports success to a validate call with callback,
\* so that internal validation starts, every ref that getMissingSchemas
\* reports is registered: the list is empty.
C13_ClosedBeforeValidation ==
    [][\A c \in 1..Len(calls) :
          (calls[c].st = "loading" /\ calls'[c].st = "scheduled")
              => getMissingSchemas(heap, schemas) = <<>>]_vars

\* a step in which the callback of call c is invoked with a loader failure
FailureReported(c) ==
    /\ calls'[c].cbCount > calls[c].cbCount
    /\ "LoaderError" \in Kinds(calls'[c].result)

\* C14: the closure is not reported as failed while a fetch recorded in the
\* pending-request table is still outstanding: when the callback is invoked
\* with a loader failure, no promise of the table is pending.
C14_FailAfterAllSettled ==
    [][\A c \in 1..Len(calls) :
          FailureReported(c) =>
             \A i \in 1..Len(refsRequested) :
                 promises[refsRequested[i].p].state # "pending"]_vars

\* C15: when the closure fails, every ref whose loader reported an error before
\* the callback is invoked has its error in the list delivered.
C15_UnionOfRejections ==
    [][\A c \in 1..Len(calls) :
          FailureReported(c) =>
             \A i \in 1..Len(refsRequested) :
                 promises[refsRequested[i].p].state = "rejected" =>
                    \E k \in 1..Len(calls'[c].result) :
                        calls'[c].result[k].refs = <<promises[refsRequested[i].p].ref>>]_vars

\* C16: at the moment the promise of a fetch for ref R is fulfilled, R is
\* registered and is not a missing schema any more, whatever id the schema
\* the loader returned declares.
C16_RegisteredBeforeResolve ==
    [][\A p \in 1..Len(promises) :
          (promises[p].state = "pending" /\ promises'[p].state = "fulfilled") =>
             /\ isRegistered(schemas', promises[p].ref)
             /\ \A i \in 1..Len(getMissingSchemas(heap, schemas')) :
                    getMissingSchemas(heap, schemas')[i] # promises[p].ref]_vars

\* the fetches a call issued in the round it ran with this depth budget
RoundFetches(log, c, depth) ==
    {i \in 1..Len(log) : log[i].call = c /\ log[i].depth = depth}

\* C17: the rounds of one validate call are strictly sequential: when the
\* loader is invoked in a round of a call, every fetch the call issued in its
\* earlier rounds has settled; and all fetches of a round are issued before
\* the round is awaited: no join of a round exists while its request loop runs.
C17_RoundsSequential ==
    /\ [][Len(fetchLog') > Len(fetchLog) =>
             LET e == fetchLog'[Len(fetchLog')]
             IN  \A i \in 1..Len(fetchLog) :
                    (fetchLog[i].call = e.call /\ fetchLog[i].depth > e.depth)
                        => promises[fetchLog[i].p].state # "pending"]_vars
    /\ [](\A k \in 1..Len(stack) :
            \A w \in waiters :
                ~(w.call = stack[k].call /\ w.depth = stack[k].depth))

\* a call has run two rounds, the first with two fetches
C17_Witness ==
    \E c \in 1..Len(calls) : \E d \in 2..MaxRecursionCfg :
        /\ Cardinality(RoundFetches(fetchLog, c, d)) = 2
        /\ Cardinality(RoundFetches(fetchLog, c, d - 1)) >= 1

\* C18: with a loader that calls done once for every invocation, every
\* validate call made with a callback eventually has its callback invoked, and
\* exactly once, after at most maxRecursion rounds of fetches and one more
\* that issues none.
C18_CallbackEventuallyOnce ==
    /\ [](\A c \in 1..Len(calls) :
            /\ calls[c].cbCount <= 1
            /\ Cardinality({fetchLog[i].depth :
                     i \in {k \in 1..Len(fetchLog) : fetchLog[k].call = c}})
                  <= cfg.maxRecursion)
    /\ \A c \in 1..MaxCalls :
          []((IF c <= Len(calls) THEN calls[c].cb ELSE FALSE)
              => <>(IF c <= Len(calls) THEN calls[c].cbCount = 1 ELSE FALSE))

\* C19: in the legacy validator every validate call made with a callback
\* eventually has its callback invoked, and exactly once, whatever
\* downloadSchema reports: a failed download still lets its round complete.
\* (A call in which the validator itself threw is left out of account.)
C19_LegacyCallbackEventually ==
    /\ [](\A c \in 1..Len(calls) : calls[c].cbCount <= 1)
    /\ \A c \in 1..MaxCalls :
          []((IF c <= Len(calls) THEN calls[c].cb /\ calls[c].st # "threw" ELSE FALSE)
              => <>(IF c <= Len(calls)
                    THEN calls[c].cbCount = 1 \/ calls[c].st = "threw"
                    ELSE FALSE))

\* the loader has reported an error for ref
LoaderFailed(ps, ref) ==
    \E p \in 1..Len(ps) : ps[p].ref = ref /\ ps[p].state = "rejected"

\* C20: the pending-request table only grows: no step removes an entry or
\* replaces the promise of an entry; and a ref whose loader has failed is never
\* requested from the loader again.
C20_PendingTableOnlyGrows ==
    [][/\ \A i \in 1..Len(refsRequested) :
              /\ i <= Len(refsRequested')
              /\ refsRequested'[i] = refsRequested[i]
       /\ \A k \in (Len(fetchLog) + 1)..Len(fetchLog') :
              ~LoaderFailed(promises, normalizeId(fetchLog'[k].ref))]_vars

\* the object a.kv with the id validate assigns: the hash of its content in h
WithHashId(h, a) ==
    [h[a] EXCEPT !.kv = Append(@, Fld(kId, Str(getObjectHash(h, a))))]

\* C21: a step changes an object only when it is a validate call given that
\* object without an id, and then only by adding to it the id that is the hash
\* of its content before the call; and no step changes the content of a
\* schema the registry already holds.
C21_ValidateFrame ==
    [][/\ \A a \in DOMAIN World :
              heap'[a] # heap[a] =>
                 /\ Len(calls') = Len(calls) + 1
                 /\ calls'[Len(calls')].schema = a
                 /\ ~HasOwn(heap, a, kId)
                 /\ heap'[a] = WithHashId(heap, a)
       /\ \A i \in 1..Len(schemas) :
              stringify(heap', Ref(schemas[i].schema))
                  = stringify(heap, Ref(schemas[i].schema))]_vars

====
